---- MODULE Spec2Model ----
(***************************************************************************)
(* Register-level model of the ATmega328P two-wire (I2C) driver            *)
(* src/src/hardware_atmega328p.rs.                                          *)
(*                                                                         *)
(* The driver is modelled at the granularity of single volatile register   *)
(* accesses: pc names the source line about to be executed.  The TWI       *)
(* peripheral is the environment: after a command has been written to      *)
(* TWCR with TWINT set it may, at any later moment, finish the operation,  *)
(* set TWINT and leave any byte in TWSR and in TWDR.                        *)
(*                                                                         *)
(* Status names are those of the source enum TWSRStatus.  The prose        *)
(* specification abbreviates them:                                         *)
(*   WriteHeaderAcked/Nacked     = WriteHeaderTransmittedAck/NackReceived  *)
(*   ReadHeaderAcked/Nacked      = ReadHeaderTransmittedAck/NackReceived   *)
(*   DataSentAcked/Nacked        = DataTransmittedAck/NackReceived         *)
(*   DataReceivedAckSent/NackSent= DataReceivedAck/NackTransmitted         *)
(***************************************************************************)
EXTENDS Integers, Sequences, FiniteSets, TLC

VARIABLES
    pc,             \* position of the caller: "<operation>_<source line>"
    freq_hz,        \* argument of TWI::new
    twbr,           \* TWI.twbr, the divisor held by the driver instance
    TWBR,           \* bit-rate register  (0x00B8)
    TWSR,           \* status register    (0x00B9)
    TWDR,           \* data register      (0x00BB)
    TWCR,           \* control register   (0x00BC)
    address,        \* send_header argument
    direction,      \* send_header argument
    payload,        \* send_header local
    data,           \* send: the slice being sent; read: the buffer
    data0,          \* read: the buffer as it was when read was called
    end_with_nack,  \* read argument
    idx,            \* position of the for loop in send / read (1-based)
    decoded,        \* value of TWSRStatus::from_byte(TWSR) at the last match
    op,             \* the operation called last
    result,         \* value returned by the last finished call
    log,            \* register accesses made by the call in progress
    other           \* SpecTwo: the private state of a second caller

vars == << pc, freq_hz, twbr, TWBR, TWSR, TWDR, TWCR, address, direction,
           payload, data, data0, end_with_nack, idx, decoded, op, result, log,
           other >>

(***************************************************************************)
(* Bounds of the model                                                     *)
(***************************************************************************)
MaxLen == 3                     \* longest slice passed to send / read

DataBytes == {60, 255}          \* bytes used as payload data
Addresses == {80, 208}          \* addresses passed to send_header in Spec
Freqs     == {100000, 400000}   \* frequencies passed to TWI::new in Spec
Byte      == 0..255

\* Status bytes the peripheral leaves in TWSR in Spec: the thirteen documented
\* codes and three undocumented ones.  SpecStatus uses every byte.
StatusBytes == {0, 8, 16, 24, 32, 40, 48, 56, 64, 72, 80, 88, 248}
               \cup {1, 96, 255}

(***************************************************************************)
(* u8 bit operators of the source (| and &)                                *)
(***************************************************************************)
RECURSIVE OrBits(_, _, _)
OrBits(a, b, k) ==
    IF k = 0 THEN 0
    ELSE (IF a % 2 = 1 \/ b % 2 = 1 THEN 1 ELSE 0)
         + 2 * OrBits(a \div 2, b \div 2, k - 1)

BitOr(a, b) == OrBits(a, b, 8)

RECURSIVE AndBits(_, _, _)
AndBits(a, b, k) ==
    IF k = 0 THEN 0
    ELSE (IF a % 2 = 1 /\ b % 2 = 1 THEN 1 ELSE 0)
         + 2 * AndBits(a \div 2, b \div 2, k - 1)

BitAnd(a, b) == AndBits(a, b, 8)

\* u8 << 1 : bits shifted out of the byte are dropped
Shl1(a) == (a * 2) % 256

(***************************************************************************)
(* Control bit masks                                                       *)
(***************************************************************************)
TWINT == 128
TWEA  == 64
TWSTA == 32
TWSTO == 16
TWEN  == 4

(***************************************************************************)
(* TWI::new                                                                *)
(***************************************************************************)
Panic == -1

\* The values `(16_000_000 / (2 * freq_hz) - 8) as u8` can take, for
\* freq_hz below 2^30 (so that `2 * freq_hz` fits a u32).  Division by zero
\* always panics.  An underflowing `- 8` panics when overflow checks are
\* compiled in and wraps otherwise; `as u8` keeps the low eight bits, and the
\* low eight bits of the wrapped u32 are those of the difference.
\* (Panic, which is no byte, stands for the outcome in which new panics.)

\* new with a quotient rounded to the nearest integer
NewTwbr_Mut(f) ==
    LET den == 2 * f
        q   == (16000000 + f) \div den
    IN
    IF den = 0 THEN {Panic}
    ELSE (IF q < 8 THEN {Panic} ELSE {}) \cup {(q - 8) % 256}

NewTwbr(f) ==
    LET den == 2 * f
        q   == 16000000 \div den
    IN
    IF den = 0 THEN {Panic}
    ELSE (IF q < 8 THEN {Panic} ELSE {}) \cup {(q - 8) % 256}

(***************************************************************************)
(* TWSRStatus::from_byte                                                   *)
(***************************************************************************)
\* from_byte with two arms swapped and the default arm naming a variant
from_byte_Mut(value) ==
    CASE value = 0   -> "BusError"
      [] value = 8   -> "StartTransmitted"
      [] value = 16  -> "RepeatedStartTransmitted"
      [] value = 24  -> "WriteHeaderTransmittedAckReceived"
      [] value = 32  -> "WriteHeaderTransmittedNackReceived"
      [] value = 40  -> "DataTransmittedAckReceived"
      [] value = 48  -> "DataTransmittedNackReceived"
      [] value = 56  -> "ArbitrationLost"
      [] value = 64  -> "ReadHeaderTransmittedAckReceived"
      [] value = 72  -> "ReadHeaderTransmittedNackReceived"
      [] value = 80  -> "DataReceivedNackTransmitted"
      [] value = 88  -> "DataReceivedAckTransmitted"
      [] value = 248 -> "NoInformation"
      [] OTHER       -> "NoInformation"

from_byte(value) ==
    CASE value = 0   -> "BusError"
      [] value = 8   -> "StartTransmitted"
      [] value = 16  -> "RepeatedStartTransmitted"
      [] value = 24  -> "WriteHeaderTransmittedAckReceived"
      [] value = 32  -> "WriteHeaderTransmittedNackReceived"
      [] value = 40  -> "DataTransmittedAckReceived"
      [] value = 48  -> "DataTransmittedNackReceived"
      [] value = 56  -> "ArbitrationLost"
      [] value = 64  -> "ReadHeaderTransmittedAckReceived"
      [] value = 72  -> "ReadHeaderTransmittedNackReceived"
      [] value = 80  -> "DataReceivedAckTransmitted"
      [] value = 88  -> "DataReceivedNackTransmitted"
      [] value = 248 -> "NoInformation"
      [] OTHER       -> "None"

(***************************************************************************)
(* Results and the access log                                              *)
(***************************************************************************)
Pending == [tag |-> "Pending", val |-> "-"]
Unit    == [tag |-> "Unit",    val |-> "-"]    \* return of a fn without result
Ok      == [tag |-> "Ok",      val |-> "-"]
Err(x)  == [tag |-> "Err",     val |-> x]

W(reg, v) == << "w", reg, v >>
R(reg, v) == << "r", reg, v >>

(***************************************************************************)
(* Volatile register accesses                                              *)
(***************************************************************************)
\* What TWCR holds after `TWCR.write_volatile(v)`: the command bits are
\* stored; writing a one to TWINT clears the completion flag, writing a zero
\* leaves the flag as it is.
WriteTWCR(old, v) ==
    IF BitAnd(v, TWINT) # 0 THEN v - TWINT
    ELSE BitOr(v, BitAnd(old, TWINT))

\* The peripheral finishes the commanded operation: it sets TWINT and leaves
\* a status code in TWSR; whatever was shifted over the bus is in TWDR.
HwComplete(StatusSet) ==
    /\ pc \notin {"new", "panicked"}
    /\ BitAnd(TWCR, TWINT) = 0
    /\ BitAnd(TWCR, TWEN) # 0
    /\ TWCR' = TWCR + TWINT
    /\ TWSR' \in StatusSet
    /\ TWDR' \in DataBytes \cup {TWDR}
    /\ UNCHANGED << other, pc, freq_hz, twbr, TWBR, address, direction, payload,
                    data, data0, end_with_nack, idx, decoded, op, result, log >>

\* await_hardware giving up after one poll
await_hardware_Mut(from, to) ==
    /\ pc = from
    /\ pc' = to
    /\ log' = Append(log, R("TWCR", TWCR))
    /\ UNCHANGED << other, freq_hz, twbr, TWBR, TWSR, TWDR, TWCR, address, direction,
                    payload, data, data0, end_with_nack, idx, decoded, op, result >>

\* One pass of the loop of await_hardware that finds TWINT set and returns.
\* A pass that finds TWINT clear changes nothing and is a stuttering step.
await_hardware(from, to) ==
    /\ pc = from
    /\ BitAnd(TWCR, TWINT) # 0
    /\ pc' = to
    /\ log' = Append(log, R("TWCR", TWCR))
    /\ UNCHANGED << other, freq_hz, twbr, TWBR, TWSR, TWDR, TWCR, address, direction,
                    payload, data, data0, end_with_nack, idx, decoded, op, result >>

\* The second caller before it calls anything
\* (dw_at and cmd_at: how many accesses the first caller had logged when the
\* second caller last wrote the data register and last wrote a command; -1
\* when it never did; first: its call returned before the first caller
\* called)
OtherIdle ==
    [pc |-> "idle", data |-> << >>, idx |-> 0, decoded |-> "-",
     result |-> Pending, dw_at |-> -1, cmd_at |-> -1, first |-> FALSE]

\* State common to the entry of every operation.
Enter(name, label) ==
    /\ pc = "idle"
    /\ pc' = label
    /\ op' = name
    /\ result' = Pending
    /\ decoded' = "-"
    /\ log' = << >>

(***************************************************************************)
(* TWI::new                                                                *)
(***************************************************************************)
New ==
    /\ pc = "new"
    /\ \E v \in NewTwbr(freq_hz) :
          IF v = Panic
          THEN /\ pc' = "panicked"
               /\ twbr' = twbr
          ELSE /\ pc' = "idle"
               /\ twbr' = v
    /\ UNCHANGED << other, freq_hz, TWBR, TWSR, TWDR, TWCR, address, direction,
                    payload, data, data0, end_with_nack, idx, decoded,
                    op, result, log >>

(***************************************************************************)
(* TWI::init                                                               *)
(***************************************************************************)
CallInit ==
    /\ Enter("init", "init_113")
    /\ address' = 0 /\ direction' = "-" /\ payload' = 0
    /\ data' = << >> /\ data0' = << >> /\ end_with_nack' = FALSE /\ idx' = 0
    /\ UNCHANGED << other, freq_hz, twbr, TWBR, TWSR, TWDR, TWCR >>

Init_113 ==
    /\ pc = "init_113"
    /\ TWSR' = 0
    /\ log' = Append(log, W("TWSR", 0))
    /\ pc' = "init_114"
    /\ UNCHANGED << other, freq_hz, twbr, TWBR, TWDR, TWCR, address, direction,
                    payload, data, data0, end_with_nack, idx, decoded, op, result >>

Init_114 ==
    /\ pc = "init_114"
    /\ TWBR' = twbr
    /\ log' = Append(log, W("TWBR", twbr))
    /\ pc' = "init_115"
    /\ UNCHANGED << other, freq_hz, twbr, TWSR, TWDR, TWCR, address, direction,
                    payload, data, data0, end_with_nack, idx, decoded, op, result >>

\* init that also writes a one to the interrupt flag
Init_115_Mut ==
    /\ pc = "init_115"
    /\ TWCR' = WriteTWCR(TWCR, BitOr(TWINT, TWEN))
    /\ log' = Append(log, W("TWCR", BitOr(TWINT, TWEN)))
    /\ pc' = "idle"
    /\ result' = Unit
    /\ UNCHANGED << other, freq_hz, twbr, TWBR, TWSR, TWDR, address, direction,
                    payload, data, data0, end_with_nack, idx, decoded, op >>

Init_115 ==
    /\ pc = "init_115"
    /\ TWCR' = WriteTWCR(TWCR, TWEN)
    /\ log' = Append(log, W("TWCR", TWEN))
    /\ pc' = "idle"
    /\ result' = Unit
    /\ UNCHANGED << other, freq_hz, twbr, TWBR, TWSR, TWDR, address, direction,
                    payload, data, data0, end_with_nack, idx, decoded, op >>

(***************************************************************************)
(* TWI::start_condition                                                    *)
(***************************************************************************)
CallStartCondition ==
    /\ Enter("start_condition", "start_121")
    /\ address' = 0 /\ direction' = "-" /\ payload' = 0
    /\ data' = << >> /\ data0' = << >> /\ end_with_nack' = FALSE /\ idx' = 0
    /\ UNCHANGED << other, freq_hz, twbr, TWBR, TWSR, TWDR, TWCR >>

\* start_condition clearing the status register before its command
Start_121_Mut ==
    /\ pc = "start_121"
    /\ TWSR' = 0
    /\ LET v == BitOr(BitOr(TWINT, TWSTA), TWEN) IN
         /\ TWCR' = WriteTWCR(TWCR, v)
         /\ log' = log \o << W("TWSR", 0), W("TWCR", v) >>
    /\ pc' = "start_123"
    /\ UNCHANGED << other, freq_hz, twbr, TWBR, TWDR, address, direction,
                    payload, data, data0, end_with_nack, idx, decoded, op,
                    result >>

Start_121 ==
    /\ pc = "start_121"
    /\ LET v == BitOr(BitOr(TWINT, TWSTA), TWEN) IN
         /\ TWCR' = WriteTWCR(TWCR, v)
         /\ log' = Append(log, W("TWCR", v))
    /\ pc' = "start_123"
    /\ UNCHANGED << other, freq_hz, twbr, TWBR, TWSR, TWDR, address, direction,
                    payload, data, data0, end_with_nack, idx, decoded, op,
                    result >>

Start_123 == await_hardware("start_123", "start_124")

\* start_condition with a match that also accepts a repeated start
StartMatch_Mut(x) ==
    IF x \in {"StartTransmitted", "RepeatedStartTransmitted"} THEN Ok
    ELSE Err(x)

StartMatch(x) ==
    IF x = "StartTransmitted" THEN Ok ELSE Err(x)

\* start_condition trying again after a lost arbitration
Start_124_Mut ==
    /\ pc = "start_124"
    /\ decoded' = from_byte(TWSR)
    /\ log' = Append(log, R("TWSR", TWSR))
    /\ IF decoded' = "None"
       THEN pc' = "panicked" /\ result' = result
       ELSE IF decoded' = "ArbitrationLost"
       THEN pc' = "start_121" /\ result' = result
       ELSE /\ pc' = "idle"
            /\ result' = StartMatch(decoded')
    /\ UNCHANGED << other, freq_hz, twbr, TWBR, TWSR, TWDR, TWCR, address, direction,
                    payload, data, data0, end_with_nack, idx, op >>

Start_124 ==
    /\ pc = "start_124"
    /\ decoded' = from_byte(TWSR)
    /\ log' = Append(log, R("TWSR", TWSR))
    /\ IF decoded' = "None"
       THEN pc' = "panicked" /\ result' = result
       ELSE /\ pc' = "idle"
            /\ result' = StartMatch(decoded')
    /\ UNCHANGED << other, freq_hz, twbr, TWBR, TWSR, TWDR, TWCR, address, direction,
                    payload, data, data0, end_with_nack, idx, op >>

(***************************************************************************)
(* TWI::stop_condition                                                     *)
(***************************************************************************)
CallStopCondition ==
    /\ Enter("stop_condition", "stop_132")
    /\ address' = 0 /\ direction' = "-" /\ payload' = 0
    /\ data' = << >> /\ data0' = << >> /\ end_with_nack' = FALSE /\ idx' = 0
    /\ UNCHANGED << other, freq_hz, twbr, TWBR, TWSR, TWDR, TWCR >>

\* stop_condition with the start bit left in its command
Stop_132_Mut ==
    /\ pc = "stop_132"
    /\ LET v == BitOr(BitOr(BitOr(TWINT, TWSTA), TWSTO), TWEN) IN
         /\ TWCR' = WriteTWCR(TWCR, v)
         /\ log' = Append(log, W("TWCR", v))
    /\ pc' = "stop_134"
    /\ UNCHANGED << other, freq_hz, twbr, TWBR, TWSR, TWDR, address, direction,
                    payload, data, data0, end_with_nack, idx, decoded, op,
                    result >>

Stop_132 ==
    /\ pc = "stop_132"
    /\ LET v == BitOr(BitOr(TWINT, TWSTO), TWEN) IN
         /\ TWCR' = WriteTWCR(TWCR, v)
         /\ log' = Append(log, W("TWCR", v))
    /\ pc' = "stop_134"
    /\ UNCHANGED << other, freq_hz, twbr, TWBR, TWSR, TWDR, address, direction,
                    payload, data, data0, end_with_nack, idx, decoded, op,
                    result >>

Stop_134 == await_hardware("stop_134", "stop_135")

\* stop_condition validating the status register like the other operations
Stop_135_Mut ==
    /\ pc = "stop_135"
    /\ decoded' = from_byte(TWSR)
    /\ IF decoded' = "None"
       THEN pc' = "panicked" /\ result' = result
       ELSE /\ pc' = "idle"
            /\ result' = IF decoded' = "NoInformation" THEN Ok
                         ELSE Err(decoded')
    /\ UNCHANGED << other, freq_hz, twbr, TWBR, TWSR, TWDR, TWCR, address, direction,
                    payload, data, data0, end_with_nack, idx, op, log >>

Stop_135 ==
    /\ pc = "stop_135"
    /\ pc' = "idle"
    /\ result' = Ok
    /\ UNCHANGED << other, freq_hz, twbr, TWBR, TWSR, TWDR, TWCR, address, direction,
                    payload, data, data0, end_with_nack, idx, decoded, op,
                    log >>

(***************************************************************************)
(* TWI::send_header                                                        *)
(***************************************************************************)
Directions == {"Read", "Write"}

\* send_header with the direction bit inverted
HeaderPayload_Mut(a, d) ==
    BitOr(Shl1(a), IF d = "Read" THEN 0 ELSE 1)

HeaderPayload(a, d) ==
    BitOr(Shl1(a), IF d = "Read" THEN 1 ELSE 0)

CallSendHeader(AddrSet, DirSet) ==
    /\ Enter("send_header", "header_139")
    /\ address' \in AddrSet
    /\ direction' \in DirSet
    /\ payload' = 0
    /\ data' = << >> /\ data0' = << >> /\ end_with_nack' = FALSE /\ idx' = 0
    /\ UNCHANGED << other, freq_hz, twbr, TWBR, TWSR, TWDR, TWCR >>

Header_139 ==
    /\ pc = "header_139"
    /\ payload' = HeaderPayload(address, direction)
    /\ pc' = "header_145"
    /\ UNCHANGED << other, freq_hz, twbr, TWBR, TWSR, TWDR, TWCR, address, direction,
                    data, data0, end_with_nack, idx, decoded, op, result,
                    log >>

\* send_header leaving out the data-register write when the register already
\* holds the payload, left there by an earlier call
Header_145_Mut ==
    /\ pc = "header_145"
    /\ TWDR' = payload
    /\ log' = IF TWDR = payload THEN log
              ELSE Append(log, W("TWDR", payload))
    /\ pc' = "header_146"
    /\ UNCHANGED << other, freq_hz, twbr, TWBR, TWSR, TWCR, address, direction,
                    payload, data, data0, end_with_nack, idx, decoded, op,
                    result >>

Header_145 ==
    /\ pc = "header_145"
    /\ TWDR' = payload
    /\ log' = Append(log, W("TWDR", payload))
    /\ pc' = "header_146"
    /\ UNCHANGED << other, freq_hz, twbr, TWBR, TWSR, TWCR, address, direction,
                    payload, data, data0, end_with_nack, idx, decoded, op,
                    result >>

Header_146 ==
    /\ pc = "header_146"
    /\ LET v == BitOr(TWINT, TWEN) IN
         /\ TWCR' = WriteTWCR(TWCR, v)
         /\ log' = Append(log, W("TWCR", v))
    /\ pc' = "header_148"
    /\ UNCHANGED << other, freq_hz, twbr, TWBR, TWSR, TWDR, address, direction,
                    payload, data, data0, end_with_nack, idx, decoded, op,
                    result >>

Header_148 == await_hardware("header_148", "header_149")

\* send_header with a match whose arms have lost their direction guards
HeaderMatch_Mut(x, d) ==
    IF x \in {"ReadHeaderTransmittedAckReceived",
              "WriteHeaderTransmittedAckReceived"} THEN Ok
    ELSE Err(x)

HeaderMatch(x, d) ==
    IF x = "ReadHeaderTransmittedAckReceived" /\ d = "Read" THEN Ok
    ELSE IF x = "WriteHeaderTransmittedAckReceived" /\ d = "Write" THEN Ok
    ELSE Err(x)

Header_149 ==
    /\ pc = "header_149"
    /\ decoded' = from_byte(TWSR)
    /\ log' = Append(log, R("TWSR", TWSR))
    /\ IF decoded' = "None"
       THEN pc' = "panicked" /\ result' = result
       ELSE /\ pc' = "idle"
            /\ result' = HeaderMatch(decoded', direction)
    /\ UNCHANGED << other, freq_hz, twbr, TWBR, TWSR, TWDR, TWCR, address, direction,
                    payload, data, data0, end_with_nack, idx, op >>

(***************************************************************************)
(* TWI::send                                                               *)
(***************************************************************************)
Slices == UNION { [1..n -> DataBytes] : n \in 0..MaxLen }

CallSend ==
    /\ Enter("send", "send_159")
    /\ data' \in Slices
    /\ idx' = 0
    /\ address' = 0 /\ direction' = "-" /\ payload' = 0
    /\ data0' = << >> /\ end_with_nack' = FALSE
    /\ UNCHANGED << other, freq_hz, twbr, TWBR, TWSR, TWDR, TWCR >>

\* `for byte in data`: take the next byte, or leave the loop and return Ok(())
Send_159 ==
    /\ pc = "send_159"
    /\ IF idx < Len(data)
       THEN idx' = idx + 1 /\ pc' = "send_161" /\ result' = result
       ELSE idx' = idx /\ pc' = "idle" /\ result' = Ok
    /\ UNCHANGED << other, freq_hz, twbr, TWBR, TWSR, TWDR, TWCR, address, direction,
                    payload, data, data0, end_with_nack, decoded, op, log >>

\* send leaving out the data-register write when the register already holds
\* the byte
Send_161_Mut ==
    /\ pc = "send_161"
    /\ TWDR' = data[idx]
    /\ log' = IF TWDR = data[idx] THEN log
              ELSE Append(log, W("TWDR", data[idx]))
    /\ pc' = "send_162"
    /\ UNCHANGED << other, freq_hz, twbr, TWBR, TWSR, TWCR, address, direction,
                    payload, data, data0, end_with_nack, idx, decoded, op,
                    result >>

Send_161 ==
    /\ pc = "send_161"
    /\ TWDR' = data[idx]
    /\ log' = Append(log, W("TWDR", data[idx]))
    /\ pc' = "send_162"
    /\ UNCHANGED << other, freq_hz, twbr, TWBR, TWSR, TWCR, address, direction,
                    payload, data, data0, end_with_nack, idx, decoded, op,
                    result >>

\* send without its call of await_hardware
Send_162_Mut ==
    /\ pc = "send_162"
    /\ LET v == BitOr(TWINT, TWEN) IN
         /\ TWCR' = WriteTWCR(TWCR, v)
         /\ log' = Append(log, W("TWCR", v))
    /\ pc' = "send_165"
    /\ UNCHANGED << other, freq_hz, twbr, TWBR, TWSR, TWDR, address, direction,
                    payload, data, data0, end_with_nack, idx, decoded, op,
                    result >>

Send_162 ==
    /\ pc = "send_162"
    /\ LET v == BitOr(TWINT, TWEN) IN
         /\ TWCR' = WriteTWCR(TWCR, v)
         /\ log' = Append(log, W("TWCR", v))
    /\ pc' = "send_164"
    /\ UNCHANGED << other, freq_hz, twbr, TWBR, TWSR, TWDR, address, direction,
                    payload, data, data0, end_with_nack, idx, decoded, op,
                    result >>

Send_164 == await_hardware("send_164", "send_165")

\* send with a match that goes on after a nack as well
SendMatch_Mut(x) ==
    x \in {"DataTransmittedAckReceived", "DataTransmittedNackReceived"}

\* The match of send: TRUE when the loop goes on
SendMatch(x) == x = "DataTransmittedAckReceived"

\* send returning an error for an undocumented status instead of unwrapping
Send_165_Mut ==
    /\ pc = "send_165"
    /\ decoded' = from_byte(TWSR)
    /\ log' = Append(log, R("TWSR", TWSR))
    /\ IF decoded' = "None"
       THEN pc' = "idle" /\ result' = Err("BusError")
       ELSE IF SendMatch(decoded')
       THEN pc' = "send_159" /\ result' = result
       ELSE pc' = "idle" /\ result' = Err(decoded')
    /\ UNCHANGED << other, freq_hz, twbr, TWBR, TWSR, TWDR, TWCR, address, direction,
                    payload, data, data0, end_with_nack, idx, op >>

Send_165 ==
    /\ pc = "send_165"
    /\ decoded' = from_byte(TWSR)
    /\ log' = Append(log, R("TWSR", TWSR))
    /\ IF decoded' = "None"
       THEN pc' = "panicked" /\ result' = result
       ELSE IF SendMatch(decoded')
       THEN pc' = "send_159" /\ result' = result
       ELSE pc' = "idle" /\ result' = Err(decoded')
    /\ UNCHANGED << other, freq_hz, twbr, TWBR, TWSR, TWDR, TWCR, address, direction,
                    payload, data, data0, end_with_nack, idx, op >>

(***************************************************************************)
(* TWI::read                                                               *)
(***************************************************************************)
CallRead ==
    /\ Enter("read", "read_174")
    /\ data' \in Slices
    /\ data0' = data'
    /\ end_with_nack' \in BOOLEAN
    /\ idx' = 0
    /\ address' = 0 /\ direction' = "-" /\ payload' = 0
    /\ UNCHANGED << other, freq_hz, twbr, TWBR, TWSR, TWDR, TWCR >>

\* read with a loop that runs its body before looking at the length
Read_174_Mut ==
    /\ pc = "read_174"
    /\ IF idx < Len(data) \/ idx = 0
       THEN idx' = idx + 1 /\ pc' = "read_176" /\ result' = result
       ELSE idx' = idx /\ pc' = "idle" /\ result' = Ok
    /\ UNCHANGED << other, freq_hz, twbr, TWBR, TWSR, TWDR, TWCR, address, direction,
                    payload, data, data0, end_with_nack, decoded, op, log >>

Read_174 ==
    /\ pc = "read_174"
    /\ IF idx < Len(data)
       THEN idx' = idx + 1 /\ pc' = "read_176" /\ result' = result
       ELSE idx' = idx /\ pc' = "idle" /\ result' = Ok
    /\ UNCHANGED << other, freq_hz, twbr, TWBR, TWSR, TWDR, TWCR, address, direction,
                    payload, data, data0, end_with_nack, decoded, op, log >>

\* read asserting the ack-enable bit whatever the flag
ReadCommand_Mut(nack) ==
    BitOr(BitOr(TWINT, TWEN), TWEA)

ReadCommand(nack) ==
    BitOr(BitOr(TWINT, TWEN), IF nack THEN TWEA ELSE 0)

Read_176 ==
    /\ pc = "read_176"
    /\ LET v == ReadCommand(end_with_nack) IN
         /\ TWCR' = WriteTWCR(TWCR, v)
         /\ log' = Append(log, W("TWCR", v))
    /\ pc' = "read_178"
    /\ UNCHANGED << other, freq_hz, twbr, TWBR, TWSR, TWDR, address, direction,
                    payload, data, data0, end_with_nack, idx, decoded, op,
                    result >>

Read_178 == await_hardware("read_178", "read_179")

\* read with a match whose arms have lost their end_with_nack guards
ReadMatch_Mut(x, nack) ==
    x \in {"DataReceivedAckTransmitted", "DataReceivedNackTransmitted"}

\* The match of read: TRUE when the slot is to be filled
ReadMatch(x, nack) ==
    \/ x = "DataReceivedAckTransmitted" /\ nack
    \/ x = "DataReceivedNackTransmitted" /\ ~nack

Read_179 ==
    /\ pc = "read_179"
    /\ decoded' = from_byte(TWSR)
    /\ log' = Append(log, R("TWSR", TWSR))
    /\ IF decoded' = "None"
       THEN pc' = "panicked" /\ result' = result
       ELSE IF ReadMatch(decoded', end_with_nack)
       THEN pc' = "read_184" /\ result' = result
       ELSE pc' = "idle" /\ result' = Err(decoded')
    /\ UNCHANGED << other, freq_hz, twbr, TWBR, TWSR, TWDR, TWCR, address, direction,
                    payload, data, data0, end_with_nack, idx, op >>

Read_184 ==
    /\ pc = "read_184"
    /\ data' = [data EXCEPT ![idx] = TWDR]
    /\ log' = Append(log, R("TWDR", TWDR))
    /\ pc' = "read_174"
    /\ UNCHANGED << other, freq_hz, twbr, TWBR, TWSR, TWDR, TWCR, address, direction,
                    payload, data0, end_with_nack, idx, decoded, op, result >>

(***************************************************************************)
(* Specification: one caller, any sequence of operations                   *)
(***************************************************************************)
InitWith(FreqSet, AddrSet, DirSet) ==
    /\ pc = "new"
    /\ freq_hz \in FreqSet
    /\ twbr = 0
    /\ TWBR = 0
    /\ TWSR = 248
    /\ TWDR = 255
    /\ TWCR = 0
    /\ address \in AddrSet /\ direction \in DirSet /\ payload = 0
    /\ data = << >> /\ data0 = << >> /\ end_with_nack = FALSE /\ idx = 0
    /\ decoded = "-" /\ op = "new" /\ result = Pending /\ log = << >>
    /\ other = OtherIdle

Init == InitWith(Freqs, {0}, {"-"})

Steps ==
    \/ New
    \/ Init_113 \/ Init_114 \/ Init_115
    \/ Start_121 \/ Start_123 \/ Start_124
    \/ Stop_132 \/ Stop_134 \/ Stop_135
    \/ Header_139 \/ Header_145 \/ Header_146 \/ Header_148 \/ Header_149
    \/ Send_159 \/ Send_161 \/ Send_162 \/ Send_164 \/ Send_165
    \/ Read_174 \/ Read_176 \/ Read_178 \/ Read_179 \/ Read_184

Next ==
    \/ CallInit
    \/ CallStartCondition
    \/ CallStopCondition
    \/ CallSendHeader(Addresses, Directions)
    \/ CallSend
    \/ CallRead
    \/ Steps
    \/ HwComplete(StatusBytes)

Spec == Init /\ [][Next]_vars

(***************************************************************************)
(* Specification: as Spec, with a processor that goes on executing the     *)
(* call in progress and a peripheral that finishes every operation it is   *)
(* given                                                                   *)
(***************************************************************************)
MaxFairLen == 2                 \* longest slice passed to send / read here

\* the statuses each operation goes on with, an error status and an
\* undocumented byte
FairStatusBytes == {8, 24, 40, 64, 80, 88, 0, 255}

CallSendFair == CallSend /\ Len(data') <= MaxFairLen

CallReadFair == CallRead /\ Len(data') <= MaxFairLen

NextFair ==
    \/ CallInit
    \/ CallStartCondition
    \/ CallStopCondition
    \/ CallSendHeader({80}, Directions)
    \/ CallSendFair
    \/ CallReadFair
    \/ Steps
    \/ HwComplete(FairStatusBytes)

SpecFair ==
    /\ Init
    /\ [][NextFair]_vars
    /\ WF_vars(Steps)
    /\ WF_vars(HwComplete(FairStatusBytes))

(***************************************************************************)
(* Specification: start_condition and stop_condition against a peripheral  *)
(* that may leave any of the 256 bytes in TWSR                             *)
(***************************************************************************)
NextStatus ==
    \/ New
    \/ CallStartCondition
    \/ CallStopCondition
    \/ Start_121 \/ Start_123 \/ Start_124
    \/ Stop_132 \/ Stop_134 \/ Stop_135
    \/ HwComplete(Byte)

SpecStatus == Init /\ [][NextStatus]_vars

(***************************************************************************)
(* Specification: send_header called, any number of times, with arguments  *)
(* drawn from every u8 address and both directions                         *)
(***************************************************************************)
InitHeader == InitWith({100000}, Byte, Directions)

NextHeader ==
    \/ New
    \/ CallSendHeader({address}, {direction})
    \/ Header_139 \/ Header_145 \/ Header_146 \/ Header_148 \/ Header_149
    \/ HwComplete(StatusBytes)

SpecHeader == InitHeader /\ [][NextHeader]_vars

(***************************************************************************)
(* Specification: construction with frequencies around every value of the  *)
(* quotient 16_000_000 / (2 * freq_hz) up to MaxQuot, followed by init     *)
(***************************************************************************)
MaxQuot == 300

FreqInputs ==
    {0, 100000, 400000}
    \cup { 16000000 \div (2 * q) : q \in 1..MaxQuot }
    \cup { 16000000 \div (2 * q) + 1 : q \in 1..MaxQuot }

NextNew ==
    \/ New
    \/ CallInit
    \/ Init_113 \/ Init_114 \/ Init_115

SpecNew == InitWith(FreqInputs, {0}, {"-"}) /\ [][NextNew]_vars

(***************************************************************************)
(* Specification: a second caller (a second TWI instance, or a handler     *)
(* that re-enters the driver) runs TWI::send, its register accesses        *)
(* interleaved with those of the first caller one access at a time.  Each  *)
(* caller makes one call, in either order or overlapping.  A panic of      *)
(* either caller ends the program.                                         *)
(***************************************************************************)
MaxTwoLen == 1                  \* longest slice either caller sends here

\* the statuses send and send_header go on with, a nack and an undocumented
\* byte
TwoStatusBytes == {24, 40, 48, 255}

callerVars ==
    << pc, freq_hz, twbr, address, direction, payload, data, data0,
       end_with_nack, idx, decoded, op, result, log >>

OtherRuns == pc \notin {"new", "panicked"}

Other_CallSend ==
    /\ OtherRuns
    /\ other.pc = "idle"
    /\ \E d \in { sl \in Slices : Len(sl) <= MaxTwoLen } :
          other' = [other EXCEPT !.pc = "send_159", !.data = d, !.idx = 0]
    /\ UNCHANGED << callerVars, TWBR, TWSR, TWDR, TWCR >>

Other_Send_159 ==
    /\ OtherRuns
    /\ other.pc = "send_159"
    /\ other' = IF other.idx < Len(other.data)
                THEN [other EXCEPT !.idx = other.idx + 1, !.pc = "send_161"]
                ELSE [other EXCEPT !.pc = "done", !.result = Ok,
                                   !.first = (op = "new")]
    /\ UNCHANGED << callerVars, TWBR, TWSR, TWDR, TWCR >>

Other_Send_161 ==
    /\ OtherRuns
    /\ other.pc = "send_161"
    /\ TWDR' = other.data[other.idx]
    /\ other' = [other EXCEPT !.pc = "send_162", !.dw_at = Len(log)]
    /\ UNCHANGED << callerVars, TWBR, TWSR, TWCR >>

Other_Send_162 ==
    /\ OtherRuns
    /\ other.pc = "send_162"
    /\ TWCR' = WriteTWCR(TWCR, BitOr(TWINT, TWEN))
    /\ other' = [other EXCEPT !.pc = "send_164", !.cmd_at = Len(log)]
    /\ UNCHANGED << callerVars, TWBR, TWSR, TWDR >>

Other_Send_164 ==
    /\ OtherRuns
    /\ other.pc = "send_164"
    /\ BitAnd(TWCR, TWINT) # 0
    /\ other' = [other EXCEPT !.pc = "send_165"]
    /\ UNCHANGED << callerVars, TWBR, TWSR, TWDR, TWCR >>

Other_Send_165 ==
    /\ OtherRuns
    /\ other.pc = "send_165"
    /\ LET x == from_byte(TWSR) IN
         IF x = "None"
         THEN /\ other' = [other EXCEPT !.pc = "panicked", !.decoded = x]
              /\ pc' = "panicked"
         ELSE /\ pc' = pc
              /\ other' = IF SendMatch(x)
                          THEN [other EXCEPT !.pc = "send_159", !.decoded = x]
                          ELSE [other EXCEPT !.pc = "done", !.decoded = x,
                                             !.result = Err(x),
                                             !.first = (op = "new")]
    /\ UNCHANGED << freq_hz, twbr, address, direction, payload, data, data0,
                    end_with_nack, idx, decoded, op, result, log,
                    TWBR, TWSR, TWDR, TWCR >>

CallSendTwo == op = "new" /\ CallSend /\ Len(data') <= MaxTwoLen

CallSendHeaderTwo == op = "new" /\ CallSendHeader({80}, Directions)

NextTwo ==
    \/ New
    \/ CallSendTwo
    \/ CallSendHeaderTwo
    \/ Header_139 \/ Header_145 \/ Header_146 \/ Header_148 \/ Header_149
    \/ Send_159 \/ Send_161 \/ Send_162 \/ Send_164 \/ Send_165
    \/ Other_CallSend
    \/ Other_Send_159 \/ Other_Send_161 \/ Other_Send_162
    \/ Other_Send_164 \/ Other_Send_165
    \/ HwComplete(TwoStatusBytes)

SpecTwo == InitWith({100000}, {0}, {"-"}) /\ [][NextTwo]_vars

(***************************************************************************)
(* Properties                                                              *)
(***************************************************************************)
\* The thirteen named statuses
Named ==
    { "StartTransmitted", "RepeatedStartTransmitted",
      "WriteHeaderTransmittedAckReceived", "WriteHeaderTransmittedNackReceived",
      "ReadHeaderTransmittedAckReceived", "ReadHeaderTransmittedNackReceived",
      "DataTransmittedAckReceived", "DataTransmittedNackReceived",
      "DataReceivedAckTransmitted", "DataReceivedNackTransmitted",
      "ArbitrationLost", "NoInformation", "BusError" }

\* The values written to (acc = "w") or read from (acc = "r") register reg
\* by the call in progress, in order
Accesses(acc, reg) ==
    LET sel == SelectSeq(log, LAMBDA e : e[1] = acc /\ e[2] = reg)
    IN  [i \in 1..Len(sel) |-> sel[i][3]]

Returned(name) == pc = "idle" /\ op = name

\* C1: start_condition returns success if and only if the status decoded
\* after completion is StartTransmitted; for each of the other twelve named
\* statuses it returns exactly that status as the error and never succeeds.
C1_StartCondition ==
    Returned("start_condition") =>
        /\ decoded \in Named
        /\ result = Ok <=> decoded = "StartTransmitted"
        /\ decoded # "StartTransmitted" => result = Err(decoded)

C1_Witness ==
    /\ Returned("start_condition")
    /\ decoded = "RepeatedStartTransmitted"
    /\ result = Err("RepeatedStartTransmitted")

\* C2: send_header returns success if and only if the direction is Read and
\* the decoded status is ReadHeaderTransmittedAckReceived, or the direction is
\* Write and the decoded status is WriteHeaderTransmittedAckReceived; for
\* every other pair of direction and named status it returns that status as
\* the error.
C2_Accepted ==
    \/ direction = "Read"  /\ decoded = "ReadHeaderTransmittedAckReceived"
    \/ direction = "Write" /\ decoded = "WriteHeaderTransmittedAckReceived"

C2_SendHeader ==
    Returned("send_header") =>
        /\ decoded \in Named
        /\ direction \in Directions
        /\ result = Ok <=> C2_Accepted
        /\ ~C2_Accepted => result = Err(decoded)

C2_Witness ==
    /\ Returned("send_header")
    /\ direction = "Write"
    /\ decoded = "ReadHeaderTransmittedAckReceived"
    /\ result = Err("ReadHeaderTransmittedAckReceived")

\* Raw status codes of the statuses send and read go on with
DataSentAckedCode       == 40
DataReceivedAckSentCode == 80
DataReceivedNackSentCode == 88

\* C3: send processes the bytes in order and stops at the first byte whose
\* decoded status is not DataTransmittedAckReceived: that status is returned
\* as the error, every byte before it was written to the data register and
\* confirmed, and no byte after it is written; if every byte's status is
\* DataTransmittedAckReceived, success is returned after the last byte has
\* been written.
C3_Send ==
    op = "send" =>
        LET wr == Accesses("w", "TWDR")
            st == Accesses("r", "TWSR")
        IN  \* the bytes written so far are a prefix of the slice, in order,
            \* and all but the last status read let the loop go on
            /\ Len(wr) <= Len(data)
            /\ wr = SubSeq(data, 1, Len(wr))
            /\ Len(st) <= Len(wr)
            /\ \A i \in 1..(Len(st) - 1) : st[i] = DataSentAckedCode
            /\ pc = "idle" =>
                 /\ result.tag \in {"Ok", "Err"}
                 /\ result = Ok =>
                      /\ wr = data
                      /\ Len(st) = Len(data)
                      /\ \A i \in 1..Len(st) : st[i] = DataSentAckedCode
                 /\ result.tag = "Err" =>
                      /\ Len(st) = Len(wr)
                      /\ Len(st) >= 1
                      /\ st[Len(st)] # DataSentAckedCode
                      /\ result = Err(from_byte(st[Len(st)]))
                      /\ result.val \in Named

\* send([b1, b2, b3]) where the status of b2 decodes to BusError
C3_Witness ==
    /\ Returned("send")
    /\ Len(data) = 3
    /\ result = Err("BusError")
    /\ Accesses("w", "TWDR") = SubSeq(data, 1, 2)
    /\ Accesses("r", "TWSR") = << DataSentAckedCode, 0 >>

\* C4: read aborts at the first slot whose decoded status is not the required
\* one and returns that status as the error; on abort the failing slot and
\* every later slot keep the values they had before the call, while each
\* earlier slot holds the data-register value read when that slot's status
\* check succeeded; if every slot's status is the required one, success is
\* returned with every slot filled.
C4_Required ==
    IF end_with_nack THEN DataReceivedAckSentCode ELSE DataReceivedNackSentCode

C4_Read ==
    Returned("read") =>
        LET st == Accesses("r", "TWSR")
            rd == Accesses("r", "TWDR")
        IN  /\ Len(data) = Len(data0)
            /\ result.tag \in {"Ok", "Err"}
            /\ result = Ok =>
                 /\ Len(st) = Len(data)
                 /\ \A i \in 1..Len(st) : st[i] = C4_Required
                 /\ data = rd
            /\ result.tag = "Err" =>
                 LET k == Len(st)
                 IN  /\ k \in 1..Len(data)
                     /\ \A i \in 1..(k - 1) : st[i] = C4_Required
                     /\ st[k] # C4_Required
                     /\ result = Err(from_byte(st[k]))
                     /\ result.val \in Named
                     /\ Len(rd) = k - 1
                     /\ \A j \in 1..(k - 1) : data[j] = rd[j]
                     /\ \A j \in k..Len(data) : data[j] = data0[j]

\* read over three slots with end_with_nack, aborted at the second slot: the
\* first slot was filled, the second and third are as they were
C4_Witness ==
    /\ Returned("read")
    /\ end_with_nack
    /\ Len(data) = 3
    /\ result = Err("DataReceivedNackTransmitted")
    /\ Accesses("r", "TWSR")
         = << DataReceivedAckSentCode, DataReceivedNackSentCode >>
    /\ data[1] = 60 /\ data0[1] = 255
    /\ data[2] = 255 /\ data0[2] = 255 /\ TWDR = 60
    /\ data[3] = 60 /\ data0[3] = 60

\* C5: in read the end_with_nack flag is applied identically to every slot
\* of the call: for every slot the control word written is TWINT + TWEN, plus
\* TWEA if and only if end_with_nack is true (0xC4 when true, 0x84 when
\* false), and the status required for the slot is
\* DataReceivedAckTransmitted when end_with_nack is true and
\* DataReceivedNackTransmitted when it is false.
C5_ReadFlag ==
    op = "read" =>
        LET cw == Accesses("w", "TWCR")
            st == Accesses("r", "TWSR")
            rd == Accesses("r", "TWDR")
            filled == IF pc = "read_184" THEN Len(rd) + 1 ELSE Len(rd)
        IN  /\ \A i \in 1..Len(cw) :
                 cw[i] = IF end_with_nack THEN 196 ELSE 132
            /\ Len(cw) \in {idx, idx - 1}
            /\ filled <= Len(st)
            /\ \A i \in 1..filled :
                 st[i] = IF end_with_nack THEN 80 ELSE 88

\* three slots filled without ack-enable, the last one like the others
C5_Witness ==
    /\ Returned("read")
    /\ ~end_with_nack
    /\ Len(data) = 3
    /\ result = Ok
    /\ Accesses("w", "TWCR") = << 132, 132, 132 >>
    /\ Accesses("r", "TWSR") = << 88, 88, 88 >>

\* C6: stop_condition always returns success once the completion flag has
\* been observed, for every value of the status register after waiting (any
\* of the 256 bytes); it never returns an error and never aborts on the
\* status value.
C6_StopCondition ==
    op = "stop_condition" =>
        /\ pc \in {"stop_132", "stop_134", "stop_135", "idle"}
        /\ pc = "idle" => result = Ok
        /\ pc \in {"stop_135", "idle"} =>
             /\ Accesses("r", "TWCR") # << >>
             /\ Accesses("r", "TWSR") = << >>

\* stop_condition has returned success while the status register holds an
\* undocumented byte
C6_Witness ==
    /\ Returned("stop_condition")
    /\ result = Ok
    /\ TWSR = 255
    /\ BitAnd(TWCR, TWINT) # 0

\* C7: status decoding is total over the 256 byte values: the thirteen
\* documented bytes map to thirteen distinct variants as listed, and each of
\* the remaining 243 bytes maps to absence.
C7_Table ==
    { << 0, "BusError" >>, << 8, "StartTransmitted" >>,
      << 16, "RepeatedStartTransmitted" >>,
      << 24, "WriteHeaderTransmittedAckReceived" >>,
      << 32, "WriteHeaderTransmittedNackReceived" >>,
      << 40, "DataTransmittedAckReceived" >>,
      << 48, "DataTransmittedNackReceived" >>,
      << 56, "ArbitrationLost" >>,
      << 64, "ReadHeaderTransmittedAckReceived" >>,
      << 72, "ReadHeaderTransmittedNackReceived" >>,
      << 80, "DataReceivedAckTransmitted" >>,
      << 88, "DataReceivedNackTransmitted" >>,
      << 248, "NoInformation" >> }

C7_Decode ==
    (op = "start_condition" /\ pc \in {"idle", "panicked"}) =>
        LET st  == Accesses("r", "TWSR")
            raw == st[1]
        IN  /\ Len(st) = 1
            /\ raw \in Byte
            /\ \A e \in C7_Table : raw = e[1] => decoded = e[2]
            /\ raw \notin { e[1] : e \in C7_Table } => decoded = "None"
            /\ Cardinality({ e[2] : e \in C7_Table }) = 13
            /\ Cardinality({ b \in Byte : from_byte(b) # "None" }) = 13
            /\ Cardinality({ from_byte(b) : b \in Byte } \ {"None"}) = 13

\* the byte 0x58 has been decoded
C7_Witness ==
    /\ Returned("start_condition")
    /\ Accesses("r", "TWSR") = << 88 >>
    /\ decoded = "DataReceivedNackTransmitted"

\* C8: for every 7-bit address a and every direction d, the byte send_header
\* writes to the data register is (a << 1) | (1 if d is Read else 0): the low
\* bit is 1 exactly for Read and the upper seven bits are the address.
C8_Payload ==
    (op = "send_header" /\ address \in 0..127) =>
        LET wr == Accesses("w", "TWDR")
        IN  /\ pc \in {"header_146", "header_148", "header_149", "idle",
                       "panicked"} => Len(wr) = 1
            /\ \A i \in 1..Len(wr) :
                 /\ wr[i] = 2 * address + (IF direction = "Read" THEN 1 ELSE 0)
                 /\ wr[i] % 2 = 1 <=> direction = "Read"
                 /\ wr[i] \div 2 = address
                 /\ address = 80 =>
                      wr[i] = IF direction = "Write" THEN 160 ELSE 161

C8_Witness ==
    /\ Returned("send_header")
    /\ address = 80
    /\ direction = "Read"
    /\ Accesses("w", "TWDR") = << 161 >>

\* C9: for every requested frequency f for which 16,000,000 / (2f) - 8 lies
\* in [0, 255], the divisor stored in the driver instance at construction is
\* floor(16,000,000 / (2f)) - 8, and this is the value init later writes to
\* the bit-rate register.
\* (The range is taken on the integer quotient, which covers every f whose
\* exact quotient is in range.  d = floor(16,000,000 / (2f)) is stated as
\* 2f * d <= 16,000,000 < 2f * (d + 1).)
C9_InRange ==
    /\ freq_hz > 0
    /\ freq_hz <= 1000000
    /\ 528 * freq_hz > 16000000

C9_Divisor ==
    (C9_InRange /\ pc # "new") =>
        LET d  == twbr + 8
            wr == Accesses("w", "TWBR")
        IN  /\ pc # "panicked"
            /\ twbr \in 0..255
            /\ 2 * freq_hz * d <= 16000000
            /\ 16000000 < 2 * freq_hz * (d + 1)
            /\ \A i \in 1..Len(wr) : wr[i] = twbr
            /\ Returned("init") => (wr = << twbr >> /\ TWBR = twbr)

C9_Witness ==
    /\ Returned("init")
    /\ freq_hz = 100000
    /\ twbr = 72
    /\ TWBR = 72
    /\ Accesses("w", "TWBR") = << 72 >>

\* C10: init performs exactly three register writes, in this order: status
\* register := 0, bit-rate register := the instance's divisor, control
\* register := TWEN only (0x04); it does not wait for the completion flag,
\* does not read the status register and cannot fail.
C10_Writes == << W("TWSR", 0), W("TWBR", twbr), W("TWCR", 4) >>

C10_Init ==
    op = "init" =>
        /\ pc \in {"init_113", "init_114", "init_115", "idle"}
        /\ pc = "init_113" => log = << >>
        /\ pc = "init_114" => log = SubSeq(C10_Writes, 1, 1)
        /\ pc = "init_115" => log = SubSeq(C10_Writes, 1, 2)
        /\ pc = "idle" => (log = C10_Writes /\ result = Unit)

\* init has returned while the completion flag is clear
C10_Witness ==
    /\ Returned("init")
    /\ log = C10_Writes
    /\ twbr = 12
    /\ TWSR = 0 /\ TWBR = 12 /\ TWCR = 4
    /\ BitAnd(TWCR, TWINT) = 0

\* The thirteen documented status codes
DocumentedCodes == { e[1] : e \in C7_Table }

\* C11: in start_condition, send_header, send and read, if the status
\* register read after completion holds a byte that is not one of the
\* thirteen documented codes, the operation terminates execution fatally: it
\* returns neither success nor a named status as an error, no named variant
\* stands in for the unknown byte, and in send / read no later byte or slot
\* is processed.
C11_Ops == {"start_condition", "send_header", "send", "read"}

C11_Inv ==
    LET st == Accesses("r", "TWSR")
        cw == Accesses("w", "TWCR")
        unknown == st # << >> /\ st[Len(st)] \notin DocumentedCodes
    IN  /\ (op \in C11_Ops /\ unknown) =>
             /\ pc = "panicked"
             /\ result = Pending
             /\ decoded \notin Named
             /\ Len(cw) = Len(st)
             /\ log[Len(log)] = R("TWSR", st[Len(st)])
             /\ op \in {"send", "read"} => idx = Len(st)
        /\ pc = "panicked" => (op \in C11_Ops /\ unknown)

C11_Fatal == [] C11_Inv /\ [][pc # "panicked"]_vars

\* send over three bytes has panicked on the status of the second one
C11_Witness ==
    /\ pc = "panicked"
    /\ op = "send"
    /\ Len(data) = 3
    /\ Accesses("r", "TWSR") = << 40, 255 >>
    /\ Accesses("w", "TWDR") = SubSeq(data, 1, 2)
    /\ result = Pending

\* C12: the wait step has no timeout: start_condition, stop_condition,
\* send_header and every non-empty send / read return only after the
\* interrupt-flag bit of the control register has been observed set; if the
\* peripheral eventually sets the flag after each command the operation
\* terminates, and while the peripheral does not set it the caller stays in
\* the wait.
C12_AwaitPcs ==
    {"start_123", "stop_134", "header_148", "send_164", "read_178"}

C12_Waits ==
    \/ op \in {"start_condition", "stop_condition", "send_header"}
    \/ op \in {"send", "read"} /\ Len(data) > 0

C12_Inv ==
    LET polls == Accesses("r", "TWCR")
        cw    == Accesses("w", "TWCR")
    IN  /\ \A i \in 1..Len(polls) : BitAnd(polls[i], TWINT) # 0
        /\ (Returned(op) /\ C12_Waits) =>
              (Len(polls) >= 1 /\ Len(polls) = Len(cw))

C12_LeavesWaitOnlyWithFlag ==
    (pc \in C12_AwaitPcs /\ pc' # pc) => BitAnd(TWCR, TWINT) # 0

C12_InCall == pc \notin {"new", "idle", "panicked"}

C12_NoTimeout ==
    /\ [] C12_Inv
    /\ [][C12_LeavesWaitOnlyWithFlag]_vars
    /\ (C12_InCall ~> ~C12_InCall)

\* the caller is blocked in the wait of the second byte of a send
C12_Witness ==
    /\ pc = "send_164"
    /\ idx = 2
    /\ BitAnd(TWCR, TWINT) = 0
    /\ Len(Accesses("r", "TWCR")) = 1
    /\ Len(Accesses("w", "TWCR")) = 2

\* C13: within every step of start_condition, send_header, send and read the
\* register accesses occur in a fixed order: (send_header and send only) the
\* data register is written before the control-register command; the status
\* register is read only after the command has been written and the
\* interrupt flag has subsequently been observed set; and in read the data
\* register is read only after that slot's status check has succeeded.
C13_Step(o) ==
    CASE o = "start_condition" ->
           << << "w", "TWCR" >>, << "r", "TWCR" >>, << "r", "TWSR" >> >>
      [] o \in {"send_header", "send"} ->
           << << "w", "TWDR" >>, << "w", "TWCR" >>,
              << "r", "TWCR" >>, << "r", "TWSR" >> >>
      [] o = "read" ->
           << << "w", "TWCR" >>, << "r", "TWCR" >>,
              << "r", "TWSR" >>, << "r", "TWDR" >> >>

C13_Order ==
    op \in {"start_condition", "send_header", "send", "read"} =>
        LET step == C13_Step(op)
            n    == Len(step)
        IN  /\ op \in {"start_condition", "send_header"} => Len(log) <= n
            /\ \A i \in 1..Len(log) :
                 /\ << log[i][1], log[i][2] >> = step[((i - 1) % n) + 1]
                 /\ (log[i][1] = "r" /\ log[i][2] = "TWCR") =>
                       BitAnd(log[i][3], TWINT) # 0
                 /\ (log[i][1] = "w" /\ log[i][2] = "TWCR") =>
                       BitAnd(log[i][3], TWINT) # 0
                 /\ (log[i][1] = "r" /\ log[i][2] = "TWDR") =>
                       log[i - 1] = R("TWSR", C4_Required)

\* read has filled one slot and read the status of the next
C13_Witness ==
    /\ op = "read"
    /\ Len(log) = 7
    /\ log[3] = R("TWSR", 88)
    /\ log[4] = R("TWDR", 60)
    /\ log[7] = R("TWSR", 0)

\* C14: the driver never retries a step: each call of start_condition,
\* stop_condition and send_header writes the control register exactly once
\* whatever the outcome, and a call of send or read over n bytes / slots
\* writes the control register exactly n times when all steps succeed and
\* exactly k + 1 times when the first failing step is the one at index k
\* (0-based), with no further register write after the failing status has
\* been read.
C14_GoOn == IF op = "send" THEN DataSentAckedCode ELSE C4_Required

C14_NoRetry ==
    LET cw == Accesses("w", "TWCR")
        st == Accesses("r", "TWSR")
    IN  /\ op \in {"start_condition", "stop_condition", "send_header"} =>
             /\ Len(cw) <= 1
             /\ pc \in {"idle", "panicked"} => Len(cw) = 1
        /\ op \in {"send", "read"} =>
             /\ Len(cw) <= Len(data)
             /\ (Returned(op) /\ result = Ok) => Len(cw) = Len(data)
             /\ (Returned(op) /\ result.tag = "Err") =>
                  \E k \in 0..(Len(data) - 1) :
                     /\ \A j \in 1..k : st[j] = C14_GoOn
                     /\ st[k + 1] # C14_GoOn
                     /\ Len(st) = k + 1
                     /\ Len(cw) = k + 1
                     /\ log[Len(log)] = R("TWSR", st[k + 1])

\* send over three bytes has failed at index 1 after two commands
C14_Witness ==
    /\ Returned("send")
    /\ Len(data) = 3
    /\ result = Err("ArbitrationLost")
    /\ Accesses("w", "TWCR") = << 132, 132 >>
    /\ Accesses("r", "TWSR") = << 40, 56 >>

\* C15: the driver keeps no protocol state between calls: after any sequence
\* of earlier operations and outcomes, including failures and calls made out
\* of protocol order, the result of an operation is determined only by its
\* arguments and the status-register values read during that call, and so
\* are its register writes.
\* (Stated as: whatever the history, the result and the writes of a finished
\* call are the values of two functions of the instance, the arguments and
\* the statuses read.)
C15_Name(b) ==
    IF b \in DocumentedCodes
    THEN (CHOOSE e \in C7_Table : e[1] = b)[2]
    ELSE "None"

\* The result of operation o with direction d, flag nack and n bytes / slots
\* when the statuses read were st; Pending when the call did not return
C15_Result(o, d, nack, n, st) ==
    LET last == st[Len(st)]
        goOn == IF o = "send" THEN 40 ELSE IF nack THEN 80 ELSE 88
    IN  CASE o = "init" -> Unit
          [] o = "stop_condition" -> Ok
          [] o = "start_condition" ->
               IF last \notin DocumentedCodes THEN Pending
               ELSE IF last = 8 THEN Ok ELSE Err(C15_Name(last))
          [] o = "send_header" ->
               IF last \notin DocumentedCodes THEN Pending
               ELSE IF (d = "Read" /\ last = 64) \/ (d = "Write" /\ last = 24)
               THEN Ok ELSE Err(C15_Name(last))
          [] o \in {"send", "read"} ->
               IF n = 0 THEN Ok
               ELSE IF last \notin DocumentedCodes THEN Pending
               ELSE IF last = goOn THEN Ok ELSE Err(C15_Name(last))

RECURSIVE C15_Steps(_, _, _, _)
\* The writes of the first m steps of send (o = "send") or read
C15_Steps(o, bytes, nack, m) ==
    IF m = 0 THEN << >>
    ELSE C15_Steps(o, bytes, nack, m - 1)
         \o (IF o = "send"
             THEN << W("TWDR", bytes[m]), W("TWCR", 132) >>
             ELSE << W("TWCR", IF nack THEN 196 ELSE 132) >>)

\* The register writes of operation o of an instance with divisor div
C15_Writes(o, div, a, d, bytes, nack, st) ==
    CASE o = "init" -> << W("TWSR", 0), W("TWBR", div), W("TWCR", 4) >>
      [] o = "start_condition" -> << W("TWCR", 164) >>
      [] o = "stop_condition" -> << W("TWCR", 148) >>
      [] o = "send_header" ->
           << W("TWDR", ((2 * a) % 256) + (IF d = "Read" THEN 1 ELSE 0)),
              W("TWCR", 132) >>
      [] o \in {"send", "read"} -> C15_Steps(o, bytes, nack, Len(st))

C15_Stateless ==
    (pc \in {"idle", "panicked"} /\ op # "new") =>
        LET st == Accesses("r", "TWSR")
        IN  /\ result = C15_Result(op, direction, end_with_nack, Len(data), st)
            /\ SelectSeq(log, LAMBDA e : e[1] = "w")
                 = C15_Writes(op, twbr, address, direction,
                              IF op = "send" THEN data ELSE << >>,
                              end_with_nack, st)
            /\ pc = "panicked" <=> result = Pending

\* send has succeeded on a driver on which init was never called
C15_Witness ==
    /\ Returned("send")
    /\ Len(data) = 2
    /\ result = Ok
    /\ TWBR = 0
    /\ TWBR # twbr

\* C17: every value the driver writes to the control register has the
\* enable bit (0x04) set and never has start and stop set together: the only
\* values written are 0x04 (init), 0xA4 (start_condition), 0x94
\* (stop_condition), 0x84 (send_header, send, read with end_with_nack false)
\* and 0xC4 (read with end_with_nack true), so the start bit is asserted only
\* by start_condition, the stop bit only by stop_condition and the
\* ack-enable bit only by read.
C17_Bit(v, mask) == (v \div mask) % 2 = 1

C17_Expected ==
    CASE op = "init" -> 4
      [] op = "start_condition" -> 164
      [] op = "stop_condition" -> 148
      [] op \in {"send_header", "send"} -> 132
      [] op = "read" -> IF end_with_nack THEN 196 ELSE 132
      [] OTHER -> -1

C17_ControlWords ==
    LET cw == Accesses("w", "TWCR")
    IN  \A i \in 1..Len(cw) :
           /\ cw[i] = C17_Expected
           /\ cw[i] \in {4, 164, 148, 132, 196}
           /\ C17_Bit(cw[i], 4)
           /\ ~(C17_Bit(cw[i], 32) /\ C17_Bit(cw[i], 16))
           /\ C17_Bit(cw[i], 32) => op = "start_condition"
           /\ C17_Bit(cw[i], 16) => op = "stop_condition"
           /\ C17_Bit(cw[i], 64) => op = "read"

\* stop_condition has written its command
C17_Witness ==
    /\ Returned("stop_condition")
    /\ Accesses("w", "TWCR") = << 148 >>

\* C18: only init writes the bit-rate register and the status register;
\* start_condition, stop_condition and read never write the data register;
\* stop_condition never reads the status register; and no operation changes
\* the divisor stored in the driver instance, so after any sequence of
\* operations following init the bit-rate register still holds the divisor
\* computed at construction.
C18_Inv ==
    /\ op # "init" =>
         (Accesses("w", "TWBR") = << >> /\ Accesses("w", "TWSR") = << >>)
    /\ op \in {"start_condition", "stop_condition", "read"} =>
         Accesses("w", "TWDR") = << >>
    /\ op = "stop_condition" => Accesses("r", "TWSR") = << >>

C18_Step ==
    /\ pc # "new" => twbr' = twbr
    /\ TWBR' # TWBR => (pc = "init_114" /\ TWBR' = twbr)
    /\ (pc # "new" /\ TWBR = twbr) => TWBR' = twbr'
    \* the status register changes by init or by the peripheral alone
    /\ TWSR' # TWSR =>
         \/ pc = "init_113" /\ TWSR' = 0
         \/ pc' = pc /\ BitAnd(TWCR, TWINT) = 0 /\ BitAnd(TWCR', TWINT) # 0
    \* the data register is not changed by a step of start_condition,
    \* stop_condition or read
    /\ (pc' # pc /\ op' \in {"start_condition", "stop_condition", "read"})
         => TWDR' = TWDR

C18_Frame == [] C18_Inv /\ [][C18_Step]_vars

\* a read has succeeded after init and the bit-rate register holds the divisor
C18_Witness ==
    /\ Returned("read")
    /\ Len(data) = 2
    /\ result = Ok
    /\ twbr = 72
    /\ TWBR = 72

\* C19: send with an empty byte sequence and read with an empty buffer
\* return success immediately without writing or reading any register and
\* without waiting on the completion flag, so they cannot block even when the
\* peripheral is unresponsive and they succeed whatever the status register
\* holds.
C19_Empty == op \in {"send", "read"} /\ Len(data) = 0

C19_Inv ==
    C19_Empty =>
        /\ log = << >>
        /\ pc \in {"send_159", "read_174", "idle"}
        /\ pc = "idle" => result = Ok
        /\ pc = "send_159" => ENABLED Send_159
        /\ pc = "read_174" => ENABLED Read_174

C19_Step ==
    (C19_Empty /\ pc # "idle" /\ pc' # pc) =>
        /\ pc' = "idle"
        /\ result' = Ok
        /\ UNCHANGED << TWBR, TWSR, TWDR, TWCR, data, log >>

C19_EmptySlice == [] C19_Inv /\ [][C19_Step]_vars

\* read over an empty buffer has returned while the peripheral is disabled
\* and the completion flag is clear
C19_Witness ==
    /\ Returned("read")
    /\ data = << >>
    /\ result = Ok
    /\ log = << >>
    /\ TWCR = 0

\* send over an empty slice has returned while the status register holds an
\* undocumented byte
C19_WitnessUnknownStatus ==
    /\ Returned("send")
    /\ data = << >>
    /\ result = Ok
    /\ log = << >>
    /\ TWSR = 255

\* C16: the driver provides no mutual exclusion over the shared registers:
\* when two callers run send / send_header interleaved at the granularity of
\* single register accesses, a state is reachable in which the data register
\* holds a byte written by the other caller at the moment one caller writes
\* its control-register command, and in which one caller reads a status
\* produced by the other caller's command (C16_Witness); with a single caller
\* running operations one at a time no such state is reachable
\* (C16_OneAtATime).

\* The position in the log of the first caller's last data-register write and
\* of its last command, or 0
C16_OwnDataWrite ==
    LET S == { j \in 1..Len(log) : log[j][1] = "w" /\ log[j][2] = "TWDR" }
    IN  IF S = {} THEN 0 ELSE CHOOSE j \in S : \A k \in S : k <= j

C16_OwnCommand ==
    LET S == { j \in 1..Len(log) : log[j][1] = "w" /\ log[j][2] = "TWCR" }
    IN  IF S = {} THEN 0 ELSE CHOOSE j \in S : \A k \in S : k <= j

\* The byte the first caller is sending
C16_OwnByte ==
    IF op = "send_header"
    THEN 2 * address + (IF direction = "Read" THEN 1 ELSE 0)
    ELSE data[idx]

\* The first caller is about to write its command while the data register
\* holds a byte the second caller wrote after the first caller's own byte
C16_ForeignData ==
    /\ pc \in {"send_162", "header_146"}
    /\ other.dw_at >= C16_OwnDataWrite

\* The first caller is about to read the status of an operation that the
\* peripheral finished after the second caller's command, which came after
\* the first caller's own
C16_ForeignStatus ==
    /\ pc \in {"send_165", "header_149"}
    /\ other.cmd_at >= C16_OwnCommand
    /\ BitAnd(TWCR, TWINT) # 0

\* The second caller has not called yet, or its call returned before the
\* first caller called
C16_Alone ==
    \/ other.pc = "idle"
    \/ other.pc = "done" /\ other.first

C16_OneAtATime ==
    (op \in {"send", "send_header"} /\ C16_Alone) =>
        /\ ~C16_ForeignData
        /\ ~C16_ForeignStatus
        /\ pc \in {"send_162", "header_146"} =>
             /\ TWDR = C16_OwnByte
             /\ Len(log) >= 1
             /\ log[Len(log)] = W("TWDR", C16_OwnByte)
        /\ pc \in {"send_165", "header_149"} =>
             /\ Len(log) >= 3
             /\ C16_OwnCommand = Len(log) - 1
             /\ log[Len(log)] = R("TWCR", 132)
             /\ C16_OwnDataWrite = Len(log) - 2
             /\ log[Len(log) - 2] = W("TWDR", C16_OwnByte)
             /\ TWCR = 132

\* The first caller sends 60.  The second caller put 255 into the data
\* register after the first caller's byte and before its command, and gave
\* its own command after the first caller's: the first caller is about to
\* read the status of the second caller's command.
C16_Witness ==
    /\ op = "send"
    /\ pc = "send_165"
    /\ data = << 60 >>
    /\ other.data = << 255 >>
    /\ log = << W("TWDR", 60), W("TWCR", 132), R("TWCR", 132) >>
    /\ other.dw_at = 1
    /\ other.cmd_at = 2
    /\ TWDR = 255
    /\ C16_ForeignStatus

====
